---- MODULE Spec2Model ----
(***************************************************************************)
(* A model of difPy (src/difPy/dif.py): parameter validation, the image    *)
(* registry, the preprocessing pass, the pairwise similarity search with   *)
(* rotation tolerance and fast search, and the lower-quality resolution.   *)
(*                                                                         *)
(* Conventions                                                             *)
(*  - A dict is a function; its keys are the function's DOMAIN.  Where the *)
(*    code depends on a dict's insertion order (the enumeration of         *)
(*    imgs_matrices and id_by_location) the dict is a sequence of items.   *)
(*  - Python's 0-based loop counters number_A / number_B are 1-based here. *)
(*  - A float is an exact rational <<numerator, denominator>> with a       *)
(*    positive denominator; comparisons cross-multiply.                    *)
(*  - A path string is the sequence of its '/'-separated components, so    *)
(*    "A/sub/" is <<"A", "sub", "">>.                                      *)
(***************************************************************************)
EXTENDS Integers, Sequences, FiniteSets, TLC

VARIABLES
    \* dif.__init__ : the caller's parameters and their validated values
    similarity_in, fast_search_in, similarity, fast_search,
    \* dif._run / _compute : the registry and the preprocessing pass
    directory, recursive, dir_count, directory_files, id_by_location,
    imgs_matrices, invalid_files, assigned,
    \* _search._matches : locals of the search
    number_A, number_B, rotations, matrix_B, mse, result,
    exclude_from_search, progress_count, match_count, total_count,
    accepted,
    \* _search._lower_quality
    st_size, lower_quality, per_group,
    \* the first search of the fast/non-fast comparison
    result_fast, match_count_fast,
    \* position in the program
    pc

cfgVars == <<similarity_in, fast_search_in, similarity, fast_search>>
regVars == <<directory, recursive, dir_count, directory_files, id_by_location,
             imgs_matrices, invalid_files, assigned>>
matchVars == <<number_A, number_B, rotations, matrix_B, mse, result,
               exclude_from_search, progress_count, match_count, total_count,
               accepted>>
qualVars == <<st_size, lower_quality, per_group>>
cmpVars == <<result_fast, match_count_fast>>
vars == <<cfgVars, regVars, matchVars, qualVars, cmpVars, pc>>

(***************************************************************************)
(* Bounds of the model.                                                    *)
(***************************************************************************)
\* px_size: the side of a grid (the program accepts 10..5000)
Px == 2
\* colour channels of a grid (the program converts every image to 3)
Channels == 2
\* largest value of one grid element (the program's is 255)
MaxPix == 1
\* most images entering a search over grids of every kind
NumImgs == 3
\* largest numerator of an explicit similarity the validation is tried on
MaxNum == 201
\* largest st_size of a file
MaxSize == 2
\* most images entering a search over grids whose only non-zero element is
\* in the top-left pixel
NumWide == 5

(***************************************************************************)
(* Generic helpers.                                                        *)
(***************************************************************************)
RECURSIVE SumOver(_, _)
\* the sum of f[x] over the finite set S
SumOver(f, S) ==
    IF S = {} THEN 0
    ELSE LET x == CHOOSE y \in S : TRUE IN f[x] + SumOver(f, S \ {x})

Range(s) == {s[i] : i \in DOMAIN s}

\* exact rationals <<n, d>>, d > 0
Leq(x, y) == x[1] * y[2] <= y[1] * x[2]
Gt(x, y) == ~Leq(x, y)

\* d with key k bound to v (a dict store d[k] = v)
Store(d, k, v) == [x \in DOMAIN d \cup {k} |-> IF x = k THEN v ELSE d[x]]
EmptyDict == [x \in {} |-> 0]

(***************************************************************************)
(* Grids: what np.asarray gives for a px_size x px_size RGB image.         *)
(***************************************************************************)
Idx == 0 .. Px - 1
Cells == Idx \X Idx \X (1 .. Channels)
ZeroGrid == [c \in Cells |-> 0]
\* the grids the model draws images from: at most one non-zero element
Grids == {ZeroGrid} \cup {[ZeroGrid EXCEPT ![c] = v] : c \in Cells, v \in 1 .. MaxPix}

\* the grids with nothing outside the top-left pixel
OriginGrids == {g \in Grids : \A c \in Cells : g[c] /= 0 => (c[1] = 0 /\ c[2] = 0)}

\* np.rot90(img, k=1, axes=(0, 1)): out[i][j] = img[j][n-1-i], per channel
_rotate_img(img) == [c \in Cells |-> img[<<c[2], Px - 1 - c[1], c[3]>>]]

RECURSIVE RotN(_, _)
\* img after k applications of _rotate_img
RotN(img, k) == IF k = 0 THEN img ELSE _rotate_img(RotN(img, k - 1))

\* the mutant of _mse below: the square is lost, so the sign of the
\* difference survives
_mse_unsquared(img_A, img_B) ==
    <<SumOver([c \in Cells |-> img_A[c] - img_B[c]], Cells), Px * Px>>

\* sum of squared element differences over the pixel count (not the
\* element count)
_mse(img_A, img_B) ==
    <<SumOver([c \in Cells |-> (img_A[c] - img_B[c]) * (img_A[c] - img_B[c])], Cells),
      Px * Px>>

(***************************************************************************)
(* _validate: the similarity and fast_search parameters.                   *)
(***************************************************************************)
Tier(name) == [kind |-> "tier", name |-> name, val |-> <<0, 1>>]
Number(q) == [kind |-> "number", name |-> "", val |-> q]
\* a value float() rejects
NotANumber == [kind |-> "other", name |-> "", val |-> <<0, 1>>]
Raised == <<-1, 1>>
\* a caller's fast_search value: a bool, or something else
Bool(b) == [kind |-> "bool", val |-> b]
NotABool == [kind |-> "other", val |-> FALSE]

\* the resolved threshold, or Raised when the code raises
_similarity(s) ==
    IF s.kind = "tier"
    THEN CASE s.name = "low" -> <<1000, 1>>
           [] s.name = "high" -> <<1, 10>>
           [] OTHER -> <<200, 1>>
    ELSE IF s.kind = "number" /\ Leq(<<0, 1>>, s.val) THEN s.val ELSE Raised

\* the mutant of _fast_search below: the override compares with >= 200
_fast_search_ge(fs, sim) ==
    IF Leq(<<200, 1>>, sim) THEN FALSE ELSE fs

\* the effective flag for a boolean fs
_fast_search(fs, sim) ==
    IF Gt(sim, <<200, 1>>) THEN FALSE ELSE fs

\* the caller's values the validation is tried on: the three tiers, the
\* numbers n and n/10 for n from -1 to MaxNum, and a value that is no number
SimilarityInputs ==
    {Tier("low"), Tier("normal"), Tier("high"), NotANumber}
        \cup {Number(<<n, d>>) : n \in -1 .. MaxNum, d \in {1, 10}}
FastSearchInputs == {Bool(TRUE), Bool(FALSE), NotABool}

\* dif.__init__ line 50
ValidateSimilarity ==
    /\ pc = "init"
    /\ similarity' = _similarity(similarity_in)
    /\ pc' = IF _similarity(similarity_in) = Raised THEN "raised" ELSE "similarity"
    /\ UNCHANGED <<similarity_in, fast_search_in, fast_search>>
    /\ UNCHANGED <<regVars, matchVars, qualVars, cmpVars>>

\* dif.__init__ line 51
ValidateFastSearch ==
    /\ pc = "similarity"
    /\ IF fast_search_in.kind /= "bool"
       THEN pc' = "raised" /\ UNCHANGED fast_search
       ELSE /\ fast_search' = _fast_search(fast_search_in.val, similarity)
            /\ pc' = "validated"
    /\ UNCHANGED <<similarity_in, fast_search_in, similarity>>
    /\ UNCHANGED <<regVars, matchVars, qualVars, cmpVars>>

(***************************************************************************)
(* Paths.                                                                  *)
(***************************************************************************)
\* str(Path(p)): empty components (a trailing or doubled '/') are dropped
PathStr(p) == SelectSeq(p, LAMBDA c : c /= "")

\* os.path.isdir and glob answer from this tree: directory A holds the file
\* y.jpg and the directory sub, which holds the file x.jpg.  The entries
\* are in the order glob lists them.
Entries ==
    << [path |-> <<"A", "y.jpg">>, isdir |-> FALSE],
       [path |-> <<"A", "sub">>, isdir |-> TRUE],
       [path |-> <<"A", "sub", "x.jpg">>, isdir |-> FALSE] >>
Directories == {<<"A">>} \cup {Entries[i].path : i \in {j \in DOMAIN Entries : Entries[j].isdir}}
FilePaths == {Entries[i].path : i \in {j \in DOMAIN Entries : ~Entries[j].isdir}}
\* the files in the order Python's string comparison gives their paths
PathOrder == << <<"A", "sub", "x.jpg">>, <<"A", "y.jpg">> >>
PathRank(p) == CHOOSE i \in DOMAIN PathOrder : PathOrder[i] = p

IsDir(p) == PathStr(p) \in Directories
Under(d, p) == Len(d) < Len(p) /\ SubSeq(p, 1, Len(d)) = d

\* glob(str(directory) + '/**', recursive=recursive): with recursive the
\* directory itself, as "dir/", and everything below it; without, '**' is
\* '*' and lists what the directory holds
_list_all_files(dir, rec) ==
    LET below == SelectSeq(Entries, LAMBDA e : Under(dir, e.path))
        inside == SelectSeq(Entries, LAMBDA e : Under(dir, e.path) /\ Len(e.path) = Len(dir) + 1)
        paths(es) == [i \in DOMAIN es |-> es[i].path]
    IN IF rec THEN <<dir \o <<"">>>> \o paths(below) ELSE paths(inside)

(***************************************************************************)
(* _compute._id_by_location and _compute._imgs_matrices                    *)
(***************************************************************************)
Keys(items) == {items[i].id : i \in DOMAIN items}
Lookup(items, id) == (CHOOSE i \in DOMAIN items : items[i].id = id)

RECURSIVE Draws(_, _, _)
\* the lists img_ids that lines 204-209 can build for k files.  uuid4().int
\* gives either a value this run has not seen, and all of these behave
\* alike, ids being only compared for equality: the model takes the least
\* unused natural nxt; or one of the ids issued for an earlier batch, old.
\* The while loop only rejects a value already in img_ids.
Draws(k, old, nxt) ==
    IF k = 0 THEN {<<>>}
    ELSE UNION {{<<x>> \o rest : rest \in Draws(k - 1, old \ {x}, IF x = nxt THEN nxt + 1 ELSE nxt)}
                : x \in old \cup {nxt}}

RECURSIVE Update(_, _)
\* dict.update: a key already present keeps its place and takes the new
\* value, a new key goes to the end
Update(items, new) ==
    IF new = <<>> THEN items
    ELSE LET it == Head(new)
             upd == IF it.id \in Keys(items)
                    THEN [items EXCEPT ![Lookup(items, it.id)] = it]
                    ELSE Append(items, it)
         IN Update(upd, Tail(new))

\* dict(zip(img_ids, directory_files))
Zip(img_ids, files) == [i \in DOMAIN files |-> [id |-> img_ids[i], location |-> files[i]]]

\* id_by_location after the batch files got the ids img_ids
\* (None is the empty registry)
_id_by_location(img_ids, files, ibl) == Update(ibl, Zip(img_ids, files))

\* what Image.open ... np.asarray gives for a file: a grid, or an exception
Readable(g) == [ok |-> TRUE, matrix |-> g]
Unreadable == [ok |-> FALSE, matrix |-> ZeroGrid]
Contents == {Unreadable} \cup {Readable(g) : g \in OriginGrids}

\* the ids of the registry with a grid: neither a directory nor unreadable
HasGrid(it, content) == ~IsDir(it.location) /\ content[PathStr(it.location)].ok
\* the ids appended to invalid_files
Fails(it, content) == ~IsDir(it.location) /\ ~content[PathStr(it.location)].ok

\* the mutant of Popped below: nothing is removed from the registry
PoppedNothing(ibl, invalid) == ibl

\* id_by_location after lines 241-242
Popped(ibl, invalid) == SelectSeq(ibl, LAMBDA it : it.id \notin Range(invalid))

(***************************************************************************)
(* _search._matches                                                        *)
(***************************************************************************)
Location(ibl, id) == ibl[Lookup(ibl, id)].location

Members(res, key) == DOMAIN res[key].matches
\* the keys of the groups whose 'matches' hold id
GroupsOf(res, id) == {key \in DOMAIN res : id \in Members(res, key)}

\* the entry stored for a matched image
MatchEntry(ibl, id_B, m) == [location |-> PathStr(Location(ibl, id_B)), mse |-> m]

\* the mutant of AcceptMatch below: the chained branch is gone, every
\* accepted match goes to the group keyed by id_A
AcceptMatchUnchained(res, ibl, id_A, id_B, m) ==
    IF id_A \notin DOMAIN res
    THEN Store(res, id_A, [location |-> PathStr(Location(ibl, id_A)),
                           matches |-> Store(EmptyDict, id_B, MatchEntry(ibl, id_B, m))])
    ELSE [res EXCEPT ![id_A].matches = Store(@, id_B, MatchEntry(ibl, id_B, m))]

\* the mutant of AcceptMatch below: the chained branch stops at the first
\* group that holds id_A (a break after check = True)
AcceptMatchFirstGroup(res, ibl, id_A, id_B, m) ==
    IF GroupsOf(res, id_A) /= {}
    THEN LET g == CHOOSE k \in GroupsOf(res, id_A) : \A k2 \in GroupsOf(res, id_A) : k <= k2
         IN [res EXCEPT ![g].matches = Store(@, id_B, MatchEntry(ibl, id_B, m))]
    ELSE AcceptMatchUnchained(res, ibl, id_A, id_B, m)

\* the mutant of AcceptMatch below: the chained branch replaces the group's
\* matches by the new entry instead of adding to them
AcceptMatchReplacing(res, ibl, id_A, id_B, m) ==
    IF GroupsOf(res, id_A) /= {}
    THEN [key \in DOMAIN res |->
            IF id_A \in Members(res, key)
            THEN [res[key] EXCEPT !.matches = Store(EmptyDict, id_B, MatchEntry(ibl, id_B, m))]
            ELSE res[key]]
    ELSE AcceptMatchUnchained(res, ibl, id_A, id_B, m)

\* result after the match (id_A, id_B) with score m is accepted
AcceptMatch(res, ibl, id_A, id_B, m) ==
    IF GroupsOf(res, id_A) /= {}
    THEN \* check = True: every group whose matches hold id_A takes id_B
         [key \in DOMAIN res |->
            IF id_A \in Members(res, key)
            THEN [res[key] EXCEPT !.matches = Store(@, id_B, MatchEntry(ibl, id_B, m))]
            ELSE res[key]]
    ELSE IF id_A \notin DOMAIN res
    THEN Store(res, id_A, [location |-> PathStr(Location(ibl, id_A)),
                           matches |-> Store(EmptyDict, id_B, MatchEntry(ibl, id_B, m))])
    ELSE [res EXCEPT ![id_A].matches = Store(@, id_B, MatchEntry(ibl, id_B, m))]

\* the mutant of Exclude below: fast search never excludes
ExcludeNever(excl, fs, id_B) == excl

\* exclude_from_search after an accepted match
Exclude(excl, fs, id_B) == IF fs = TRUE THEN Append(excl, id_B) ELSE excl

\* the mutant of Excluded below: no anchor is ever skipped
ExcludedNever(excl, id_A) == FALSE

\* id_A in exclude_from_search
Excluded(excl, id_A) == id_A \in Range(excl)

\* the mutant of RotateFor below: matrix_B is rotated before the first
\* comparison too
RotateAlways(rot, mB) == _rotate_img(mB)

\* the matrix compared in the while-iteration with counter rot
RotateFor(rot, mB) == IF rot /= 0 THEN _rotate_img(mB) ELSE mB

\* mse <= similarity
Within(m, sim) == Leq(m, sim)

\* the sum of len(result[id]['matches'])
CountMatches(res) == SumOver([k \in DOMAIN res |-> Cardinality(Members(res, k))], DOMAIN res)

N == Len(imgs_matrices)
id_A == imgs_matrices[number_A].id
matrix_A == imgs_matrices[number_A].matrix
id_B == imgs_matrices[number_B].id

\* the for-loop bookkeeping once the while loop of the pair is over:
\* the next B, or, after the last B, the next anchor
NextPair ==
    IF number_B < N
    THEN /\ number_B' = number_B + 1
         /\ matrix_B' = imgs_matrices[number_B + 1].matrix
         /\ rotations' = 0
         /\ pc' = "rot"
         /\ UNCHANGED <<number_A, progress_count>>
    ELSE /\ number_A' = number_A + 1
         /\ progress_count' = progress_count + 1
         /\ pc' = "outer"
         /\ UNCHANGED <<number_B, matrix_B, rotations>>

\* lines 268-269: an excluded anchor is skipped
SkipAnchor ==
    /\ pc = "outer" /\ number_A <= N
    /\ Excluded(exclude_from_search, id_A)
    /\ number_A' = number_A + 1
    /\ progress_count' = progress_count + 1
    /\ UNCHANGED <<number_B, rotations, matrix_B, mse, result, exclude_from_search,
                   match_count, total_count, accepted, pc>>
    /\ UNCHANGED <<cfgVars, regVars, qualVars, cmpVars>>

\* lines 270-273: the inner loop starts at the first B after A
StartAnchor ==
    /\ pc = "outer" /\ number_A <= N
    /\ ~Excluded(exclude_from_search, id_A)
    /\ IF number_A < N
       THEN /\ number_B' = number_A + 1
            /\ matrix_B' = imgs_matrices[number_A + 1].matrix
            /\ rotations' = 0
            /\ pc' = "rot"
            /\ UNCHANGED <<number_A, progress_count>>
       ELSE /\ number_A' = number_A + 1
            /\ progress_count' = progress_count + 1
            /\ UNCHANGED <<number_B, matrix_B, rotations, pc>>
    /\ UNCHANGED <<mse, result, exclude_from_search, match_count, total_count, accepted>>
    /\ UNCHANGED <<cfgVars, regVars, qualVars, cmpVars>>

\* lines 274-298: one while-iteration whose score is within the threshold
AcceptRotation ==
    /\ pc = "rot" /\ rotations <= 3
    /\ LET mB == RotateFor(rotations, matrix_B)
           m == _mse(matrix_A, mB)
       IN /\ Within(m, similarity)
          /\ mse' = m
          /\ result' = AcceptMatch(result, id_by_location, id_A, id_B, m)
          /\ exclude_from_search' = Exclude(exclude_from_search, fast_search, id_B)
          /\ accepted' = Append(accepted, [A |-> id_A, B |-> id_B, rotations |-> rotations,
                                           matrix_B |-> mB, mse |-> m])
    /\ NextPair
    /\ UNCHANGED <<match_count, total_count>>
    /\ UNCHANGED <<cfgVars, regVars, qualVars, cmpVars>>

\* lines 274-278, 299-300: one while-iteration whose score is above it
RejectRotation ==
    /\ pc = "rot" /\ rotations <= 3
    /\ LET mB == RotateFor(rotations, matrix_B)
           m == _mse(matrix_A, mB)
       IN /\ ~Within(m, similarity)
          /\ mse' = m
          /\ IF rotations < 3
             THEN /\ rotations' = rotations + 1
                  /\ matrix_B' = mB
                  /\ UNCHANGED <<number_A, number_B, progress_count, pc>>
             ELSE NextPair
    /\ UNCHANGED <<result, exclude_from_search, accepted, match_count, total_count>>
    /\ UNCHANGED <<cfgVars, regVars, qualVars, cmpVars>>

\* lines 303-305: the matches are counted and the search returns
ReturnMatches ==
    /\ pc = "outer" /\ number_A > N
    /\ match_count' = CountMatches(result)
    /\ pc' = "searched"
    /\ UNCHANGED <<number_A, number_B, rotations, matrix_B, mse, result,
                   exclude_from_search, progress_count, total_count, accepted>>
    /\ UNCHANGED <<cfgVars, regVars, qualVars, cmpVars>>

(***************************************************************************)
(* Spec: one search, step by step, over every sequence of at most NumImgs  *)
(* grids, for the thresholds and flags that validation lets through.       *)
(***************************************************************************)
\* the caller's similarity values the searches are run with
SearchSimilarities == {Tier("high"), Number(<<1, 4>>), Tier("normal")}

\* locals of _matches at lines 259-263
InitMatches(items) ==
    /\ number_A = 1 /\ number_B = 0 /\ rotations = 0
    /\ matrix_B = ZeroGrid /\ mse = <<0, 1>>
    /\ result = EmptyDict /\ exclude_from_search = <<>>
    /\ progress_count = 0 /\ match_count = 0
    /\ total_count = Len(items)
    /\ accepted = <<>>

NoRegistry ==
    /\ directory = <<>> /\ recursive = TRUE /\ dir_count = 0
    /\ directory_files = <<>> /\ invalid_files = <<>> /\ assigned = <<>>

NoQuality == st_size = EmptyDict /\ lower_quality = <<>> /\ per_group = EmptyDict
NoCompare == result_fast = EmptyDict /\ match_count_fast = 0

\* a search about to start: at most maxN images drawn from pool, under a
\* validated threshold and flag
InitSearch(maxN, pool) ==
    /\ similarity_in \in SearchSimilarities
    /\ fast_search_in \in {Bool(TRUE), Bool(FALSE)}
    /\ similarity = _similarity(similarity_in)
    /\ fast_search = _fast_search(fast_search_in.val, similarity)
    /\ \E n \in 0 .. maxN : \E g \in [1 .. n -> pool] :
          /\ imgs_matrices = [i \in 1 .. n |-> [id |-> i, matrix |-> g[i]]]
          /\ id_by_location = [i \in 1 .. n |-> [id |-> i, location |-> <<"A", ToString(i)>>]]
    /\ NoRegistry /\ NoQuality /\ NoCompare
    /\ InitMatches(imgs_matrices)
    /\ pc = "outer"

Init == InitSearch(NumImgs, Grids)

Next == SkipAnchor \/ StartAnchor \/ AcceptRotation \/ RejectRotation \/ ReturnMatches

Spec == Init /\ [][Next]_vars

\* the same search over more images, of fewer kinds
InitWide == InitSearch(NumWide, OriginGrids)
SpecWide == InitWide /\ [][Next]_vars

(***************************************************************************)
(* SpecCompare: _matches with fast_search=True and then, on the same       *)
(* imgs_matrices and threshold, with fast_search=False.                    *)
(***************************************************************************)
\* the second call: the first call's result is kept aside, the locals start
\* again as at lines 259-263
SearchAgain ==
    /\ pc = "searched" /\ fast_search
    /\ result_fast' = result
    /\ match_count_fast' = match_count
    /\ fast_search' = FALSE
    /\ number_A' = 1 /\ number_B' = 0 /\ rotations' = 0
    /\ matrix_B' = ZeroGrid /\ mse' = <<0, 1>>
    /\ result' = EmptyDict /\ exclude_from_search' = <<>>
    /\ progress_count' = 0 /\ match_count' = 0
    /\ total_count' = Len(imgs_matrices)
    /\ accepted' = <<>>
    /\ pc' = "outer"
    /\ UNCHANGED <<similarity_in, fast_search_in, similarity>>
    /\ UNCHANGED <<regVars, qualVars>>

InitCompare == InitWide /\ fast_search_in = Bool(TRUE)
NextCompare == Next \/ SearchAgain
SpecCompare == InitCompare /\ [][NextCompare]_vars

(***************************************************************************)
(* SpecRun: dif._run, from the directories to the lower-quality list.      *)
(***************************************************************************)
\* the directory the for loop of line 76 is at
dir == directory[dir_count + 1]

\* lines 77-79 and 82-84: the directory is listed and its files get ids
AssignDirectory ==
    /\ pc = "run" /\ dir_count < Len(directory)
    /\ dir_count = 0 \/ dir \notin Range(directory_files)
    /\ LET files == _list_all_files(dir, recursive)
       IN /\ directory_files' = files
          /\ \E img_ids \in Draws(Len(files), Keys(id_by_location),
                                  Cardinality(Keys(id_by_location)) + 1) :
                /\ id_by_location' = _id_by_location(img_ids, files, id_by_location)
                /\ assigned' = assigned \o Zip(img_ids, files)
    /\ dir_count' = dir_count + 1
    /\ UNCHANGED <<directory, recursive, imgs_matrices, invalid_files, pc>>
    /\ UNCHANGED <<cfgVars, matchVars, qualVars, cmpVars>>

\* line 82: a later directory found in the last listing is passed over
SkipDirectory ==
    /\ pc = "run" /\ dir_count < Len(directory)
    /\ dir_count > 0 /\ dir \in Range(directory_files)
    /\ dir_count' = dir_count + 1
    /\ UNCHANGED <<directory, recursive, directory_files, id_by_location,
                   imgs_matrices, invalid_files, assigned, pc>>
    /\ UNCHANGED <<cfgVars, matchVars, qualVars, cmpVars>>

\* line 87, _compute._imgs_matrices: every file of the registry that is no
\* directory is opened; content is what the files hold
ImgsMatrices ==
    /\ pc = "run" /\ dir_count = Len(directory)
    /\ \E content \in [FilePaths -> Contents] :
          LET valid == SelectSeq(id_by_location, LAMBDA it : HasGrid(it, content))
              failed == SelectSeq(id_by_location, LAMBDA it : Fails(it, content))
          IN /\ imgs_matrices' = [i \in DOMAIN valid |->
                    [id |-> valid[i].id, matrix |-> content[PathStr(valid[i].location)].matrix]]
             /\ invalid_files' = [i \in DOMAIN failed |-> failed[i].id]
             /\ id_by_location' = Popped(id_by_location, invalid_files')
    /\ pc' = "prepared"
    /\ UNCHANGED <<directory, recursive, dir_count, directory_files, assigned>>
    /\ UNCHANGED <<cfgVars, matchVars, qualVars, cmpVars>>

\* line 88 and lines 259-263: _matches is entered
CallMatches ==
    /\ pc = "prepared"
    /\ number_A' = 1 /\ number_B' = 0 /\ rotations' = 0
    /\ matrix_B' = ZeroGrid /\ mse' = <<0, 1>>
    /\ result' = EmptyDict /\ exclude_from_search' = <<>>
    /\ progress_count' = 0 /\ match_count' = 0
    /\ total_count' = Len(imgs_matrices)
    /\ accepted' = <<>>
    /\ pc' = "outer"
    /\ UNCHANGED <<cfgVars, regVars, qualVars, cmpVars>>

\* the keys of result in insertion order: anchors become keys in the order
\* imgs_matrices enumerates them
ResultKeys(res, items) ==
    LET ids == [i \in DOMAIN items |-> items[i].id]
    IN SelectSeq(ids, LAMBDA id : id \in DOMAIN res)

\* lines 311-314: the location of the group's key and of each of its matches
MatchGroup(res, items, key) ==
    LET ids == [i \in DOMAIN items |-> items[i].id]
        members == SelectSeq(ids, LAMBDA id : id \in Members(res, key))
    IN <<res[key].location>> \o [i \in DOMAIN members |-> res[key].matches[members[i]].location]

\* (size, path) tuples compare by size and then by path
TupleGeq(sizes, p, q) ==
    sizes[p] > sizes[q] \/ (sizes[p] = sizes[q] /\ PathRank(p) >= PathRank(q))

RECURSIVE _check_img_quality(_, _)
\* img_list sorted by (os.stat(img).st_size, img), largest first
_check_img_quality(img_list, sizes) ==
    IF img_list = <<>> THEN <<>>
    ELSE LET top == CHOOSE i \in DOMAIN img_list :
                        \A j \in DOMAIN img_list : TupleGeq(sizes, img_list[i], img_list[j])
             rest == [j \in 1 .. Len(img_list) - 1 |->
                        IF j < top THEN img_list[j] ELSE img_list[j + 1]]
         IN <<img_list[top]>> \o _check_img_quality(rest, sizes)

RECURSIVE Concat(_, _)
\* the lists f[keys[1]], f[keys[2]], ... joined
Concat(f, keys) == IF keys = <<>> THEN <<>> ELSE f[Head(keys)] \o Concat(f, Tail(keys))

\* line 89, _search._lower_quality: sizes is what os.stat answers
LowerQuality ==
    /\ pc = "searched"
    /\ LET locations == UNION {Range(MatchGroup(result, imgs_matrices, key)) : key \in DOMAIN result}
       IN \E sizes \in [locations -> 1 .. MaxSize] :
             /\ st_size' = sizes
             /\ per_group' = [key \in DOMAIN result |->
                   LET match_group == MatchGroup(result, imgs_matrices, key)
                       sort_by_size == _check_img_quality(match_group, sizes)
                   IN [match_group |-> match_group, sort_by_size |-> sort_by_size,
                       lower |-> Tail(sort_by_size)]]
             /\ lower_quality' = Concat([key \in DOMAIN result |-> per_group'[key].lower],
                                        ResultKeys(result, imgs_matrices))
    /\ pc' = "resolved"
    /\ UNCHANGED <<cfgVars, regVars, matchVars, cmpVars>>

\* the directories the run is given: one or two different ones
DirectoryInputs ==
    {<<d>> : d \in Directories} \cup {p \in Directories \X Directories : p[1] /= p[2]}

InitRun ==
    /\ similarity_in \in SearchSimilarities
    /\ fast_search_in \in {Bool(TRUE), Bool(FALSE)}
    /\ similarity = _similarity(similarity_in)
    /\ fast_search = _fast_search(fast_search_in.val, similarity)
    /\ directory \in DirectoryInputs
    /\ recursive \in BOOLEAN
    /\ dir_count = 0 /\ directory_files = <<>> /\ id_by_location = <<>>
    /\ imgs_matrices = <<>> /\ invalid_files = <<>> /\ assigned = <<>>
    /\ NoQuality /\ NoCompare
    /\ InitMatches(<<>>)
    /\ pc = "run"

NextRun ==
    \/ AssignDirectory \/ SkipDirectory \/ ImgsMatrices \/ CallMatches
    \/ Next
    \/ LowerQuality
SpecRun == InitRun /\ [][NextRun]_vars

(***************************************************************************)
(* SpecValidate: the validation of similarity and fast_search.             *)
(***************************************************************************)
InitValidate ==
    /\ similarity_in \in SimilarityInputs
    /\ fast_search_in \in FastSearchInputs
    /\ similarity = Raised /\ fast_search = FALSE
    /\ imgs_matrices = <<>> /\ id_by_location = <<>>
    /\ NoRegistry /\ NoQuality /\ NoCompare
    /\ InitMatches(<<>>)
    /\ pc = "init"

NextValidate == ValidateSimilarity \/ ValidateFastSearch
SpecValidate == InitValidate /\ [][NextValidate]_vars

(***************************************************************************)
(* Properties of the search (Spec).                                        *)
(***************************************************************************)
Grid(i) == imgs_matrices[i].matrix
Ids == Keys(imgs_matrices)
AcceptedOnce == Len(accepted') = Len(accepted) + 1
LastAccepted == accepted'[Len(accepted')]

\* the squared error of two grids and whether image i matches the later
\* image j at some rotation, stated on the input alone
SquaredError(a, b) == SumOver([c \in Cells |-> (a[c] - b[c]) * (a[c] - b[c])], Cells)
InputMatch(i, j) ==
    \E r \in 0 .. 3 :
        SquaredError(Grid(i), RotN(Grid(j), r)) * similarity[2] <= similarity[1] * Px * Px
\* two images that both match a later third one match each other
TransitiveInput ==
    \A i, j, k \in DOMAIN imgs_matrices :
        (i < j /\ j < k /\ InputMatch(i, k) /\ InputMatch(j, k)) => InputMatch(i, j)

InAtMostOneGroup == \A i \in Ids : Cardinality(GroupsOf(result, i)) <= 1

\* C1 as stated: with fast_search enabled, in every state of the search each
\* image id is in the 'matches' of at most one group.
C1_OneGroupWhenFast == fast_search => InAtMostOneGroup

\* C1 amended: with fast_search enabled each image id is in the 'matches' of
\* at most one group provided the input is transitive: whenever two images
\* both match a later third image, the earlier of the two matches the other.
C1_OneGroupWhenFastTransitive == (fast_search /\ TransitiveInput) => InAtMostOneGroup

\* a finished fast search over a transitive input in which a later anchor
\* was skipped and a group has two members
C1_Witness ==
    /\ pc = "searched" /\ fast_search /\ TransitiveInput
    /\ \E k \in DOMAIN result : Cardinality(Members(result, k)) >= 2
    /\ Len(exclude_from_search) >= 2

ScoresKept ==
    \A key \in DOMAIN result : \A b \in Members(result, key) :
        /\ key \in DOMAIN result'
        /\ b \in Members(result', key)
        /\ result'[key].matches[b].mse = result[key].matches[b].mse

\* C3 as stated: a score recorded for member B of a group is never changed
\* by a later step of the search.
C3_FirstMatchWins == [][ScoresKept]_vars

\* C3 amended: with fast_search enabled, a score recorded for member B of a
\* group is never changed by a later step of the search.
C3_FirstMatchWinsWhenFast == [][fast_search => ScoresKept]_vars

\* a fast search in which an image with a recorded score was accepted again
C3_Witness ==
    /\ fast_search
    /\ \E i, j \in DOMAIN accepted : i < j /\ accepted[i].B = accepted[j].B

MovedOn == ~(pc' = "rot" /\ number_A' = number_A /\ number_B' = number_B)

RotationStep ==
    pc = "rot" =>
    LET tried == RotN(Grid(number_B), rotations)
        s == _mse(matrix_A, tried)
    IN /\ rotations \in 0 .. 3
       /\ \A q \in 0 .. rotations - 1 :
             Gt(_mse(matrix_A, RotN(Grid(number_B), q)), similarity)
       /\ mse' = s
       /\ IF Leq(s, similarity)
          THEN /\ accepted' = Append(accepted, [A |-> id_A, B |-> id_B,
                                  rotations |-> rotations, matrix_B |-> tried, mse |-> s])
               /\ \E key \in DOMAIN result' : id_B \in Members(result', key)
               /\ \A key \in DOMAIN result' :
                     (key \notin DOMAIN result \/ result'[key] /= result[key])
                        => /\ id_B \in Members(result', key)
                           /\ result'[key].matches[id_B].mse = s
               /\ MovedOn
          ELSE /\ accepted' = accepted
               /\ result' = result
               /\ IF rotations < 3
                  THEN /\ pc' = "rot" /\ number_A' = number_A /\ number_B' = number_B
                       /\ rotations' = rotations + 1
                  ELSE MovedOn

\* C7: for every compared pair B is tried at 0, 90, 180 and 270 degrees in
\* that order; the first rotation whose score is within the threshold is
\* accepted, its score is the one recorded and no further rotation is tried;
\* the pair is given up only after all four rotations scored above it.
C7_FirstRotationWins == [][RotationStep]_vars

\* one pair was accepted at 270 degrees, after three rotations scored above
\* the threshold, and another pair was accepted unrotated
C7_Witness ==
    \E i, j \in DOMAIN accepted : accepted[i].rotations = 3 /\ accepted[j].rotations = 0

\* C9: _mse is symmetric: for the grids of every two images, for the pair
\* of matrices under comparison (B as rotated so far), and for every score
\* the search accepted.
C9_MseSymmetric ==
    /\ \A i, j \in DOMAIN imgs_matrices : _mse(Grid(i), Grid(j)) = _mse(Grid(j), Grid(i))
    /\ pc = "rot" => _mse(matrix_A, matrix_B) = _mse(matrix_B, matrix_A)
    /\ \A e \in Range(accepted) :
          e.mse = _mse(e.matrix_B, Grid(Lookup(imgs_matrices, e.A)))

\* the search accepted a pair of different grids, with a score above 0
C9_Witness == \E e \in Range(accepted) : e.mse[1] > 0

OthersKept(G) == \A k \in DOMAIN result \ G : k \in DOMAIN result' /\ result'[k] = result[k]
Attached(k, b) == k \in DOMAIN result' /\ Members(result', k) = Members(result, k) \cup {b}

UnchainedCase(a, b) ==
    /\ DOMAIN result' = DOMAIN result \cup {a}
    /\ b \in Members(result', a)
    /\ Members(result', a) = (IF a \in DOMAIN result THEN Members(result, a) ELSE {}) \cup {b}
    /\ OthersKept({a})

\* C10 as stated: on an accepted match (A, B), if A is a member of a group,
\* B is attached to that group and to no other, and no group keyed by A is
\* created or extended; otherwise B is added to the group keyed by A.
C10_ChainedToOneGroup ==
    [][AcceptedOnce =>
        LET a == LastAccepted.A
            b == LastAccepted.B
        IN IF GroupsOf(result, a) /= {}
           THEN /\ DOMAIN result' = DOMAIN result
                /\ \E g \in GroupsOf(result, a) : Attached(g, b) /\ OthersKept({g})
           ELSE UnchainedCase(a, b)]_vars

\* C10 amended: on an accepted match (A, B), if A is a member of some group,
\* B is attached to every group whose matches hold A and to no group whose
\* matches do not, and no group keyed by A is created or extended; otherwise
\* B is added to the group keyed by A, which is created if it does not exist.
C10_ChainedToEveryGroup ==
    [][AcceptedOnce =>
        LET a == LastAccepted.A
            b == LastAccepted.B
        IN IF GroupsOf(result, a) /= {}
           THEN /\ DOMAIN result' = DOMAIN result
                /\ \A g \in GroupsOf(result, a) : Attached(g, b)
                /\ OthersKept(GroupsOf(result, a))
           ELSE UnchainedCase(a, b)]_vars

\* an accepted match whose A is a member of two groups, both of which hold B
C10_Witness ==
    \E e \in Range(accepted) :
        /\ Cardinality(GroupsOf(result, e.A)) >= 2
        /\ GroupsOf(result, e.A) \subseteq GroupsOf(result, e.B)

(***************************************************************************)
(* Properties of the two searches (SpecCompare).                           *)
(***************************************************************************)
BothSearched == pc = "searched" /\ ~fast_search

\* C2 as stated: for the same imgs_matrices and threshold, match_count with
\* fast_search=True is never greater than match_count with fast_search=False.
C2_FastNeverMore == BothSearched => match_count_fast <= match_count

\* C2 amended: for the same imgs_matrices of at most four images and the
\* same threshold, match_count with fast_search=True is never greater than
\* match_count with fast_search=False.
C2_FastNeverMoreUpToFour ==
    (BothSearched /\ Len(imgs_matrices) <= 4) => match_count_fast <= match_count

\* both searches of four images are over, the fast one skipped an anchor
\* and found fewer matches
C2_Witness ==
    /\ BothSearched /\ Len(imgs_matrices) = 4
    /\ 0 < match_count_fast /\ match_count_fast < match_count

(***************************************************************************)
(* Properties of the validation (SpecValidate).                            *)
(***************************************************************************)
\* C8: the validated fast_search is False whenever the resolved threshold is
\* above 200, as it is for the 'low' tier, resolved to 1000, whatever bool
\* the caller passed; it is the caller's bool whenever the threshold is at
\* most 200.
C8_FastSearchOverride ==
    pc = "validated" =>
        /\ similarity[1] > 200 * similarity[2] => fast_search = FALSE
        /\ similarity[1] <= 200 * similarity[2] => fast_search = fast_search_in.val
        /\ similarity_in = Tier("low") => (similarity = <<1000, 1>> /\ fast_search = FALSE)

\* the caller asked for fast search with a threshold of exactly 200 and
\* keeps it
C8_Witness ==
    /\ pc = "validated" /\ fast_search_in = Bool(TRUE)
    /\ similarity_in = Number(<<200, 1>>) /\ fast_search = TRUE

(***************************************************************************)
(* Properties of the run (SpecRun).                                        *)
(***************************************************************************)
Preprocessed == pc = "run" /\ pc' = "prepared"
\* the ids of the registry whose location is a directory
DirectoryIds(ibl) == {ibl[i].id : i \in {j \in DOMAIN ibl : IsDir(ibl[j].location)}}
\* the ids of the registry ibl that got no grid in mats
NoGridIds(ibl, mats) == Keys(ibl) \ Keys(mats)

\* C4 as stated: after _imgs_matrices every location that produced no grid,
\* unreadable file or directory, is in invalid_files and out of
\* id_by_location: the ids left are the ids with a grid and
\* len(invalid_files) counts the locations without one.
C4_EveryFailureRecorded ==
    [][Preprocessed =>
        /\ Keys(id_by_location') = Keys(imgs_matrices')
        /\ Range(invalid_files') = NoGridIds(id_by_location, imgs_matrices')
        /\ Len(invalid_files') = Cardinality(NoGridIds(id_by_location, imgs_matrices'))]_vars

\* C4 amended: after _imgs_matrices every location that is no directory and
\* could not be preprocessed is in invalid_files, once, and out of
\* id_by_location; a directory is passed over: it gets no grid, is not in
\* invalid_files and stays in id_by_location.  The ids left are the ids
\* with a grid and the ids of the directories, and len(invalid_files)
\* counts the locations without a grid that are no directories.
C4_EveryFileFailureRecorded ==
    [][Preprocessed =>
        LET dirs == DirectoryIds(id_by_location)
            nogrid == NoGridIds(id_by_location, imgs_matrices')
        IN /\ Keys(imgs_matrices') \subseteq Keys(id_by_location) \ dirs
           /\ Keys(id_by_location') = Keys(imgs_matrices') \cup dirs
           /\ Range(invalid_files') = nogrid \ dirs
           /\ Len(invalid_files') = Cardinality(nogrid \ dirs)]_vars

\* the registry after _imgs_matrices lost an unreadable file and holds an
\* image and a directory
C4_Witness ==
    /\ pc = "prepared"
    /\ invalid_files /= <<>> /\ imgs_matrices /= <<>>
    /\ DirectoryIds(id_by_location) /= {}
    /\ Keys(id_by_location) \cap Range(invalid_files) = {}

AllIdsDistinct == \A i, j \in DOMAIN assigned : i /= j => assigned[i].id /= assigned[j].id

\* C5: no two locations that were given an id share it, and while the
\* directories are being registered the registry holds one entry for each.
C5_NoSharedId ==
    /\ AllIdsDistinct
    /\ pc = "run" => Len(id_by_location) = Len(assigned)

\* C6: for every group of k locations _lower_quality takes k-1 of them, and
\* the location ranked first, which no location of the group exceeds in
\* size, is not among those taken.  Stated for the runs in which every
\* location got an id of its own.
C6_AllButTheLargest ==
    (pc = "resolved" /\ AllIdsDistinct) =>
        /\ \A key \in DOMAIN per_group :
              LET g == per_group[key]
              IN /\ Len(g.lower) = Len(g.match_group) - 1
                 /\ \A l \in Range(g.match_group) : st_size[l] <= st_size[g.sort_by_size[1]]
                 /\ g.sort_by_size[1] \notin Range(g.lower)
        /\ Len(lower_quality) =
              SumOver([key \in DOMAIN per_group |-> Len(per_group[key].match_group) - 1],
                      DOMAIN per_group)

(***************************************************************************)
(* Properties of the anchors of one search (SpecWide).                     *)
(***************************************************************************)
AcceptedAsB == {accepted[i].B : i \in DOMAIN accepted}

\* an id accepted as B keys no group, no comparison is under way with it as
\* A, and no later accepted match has it as A
NeverAnAnchor ==
    /\ \A b \in AcceptedAsB : b \notin DOMAIN result
    /\ pc = "rot" => id_A \notin AcceptedAsB
    /\ \A i, j \in DOMAIN accepted : i < j => accepted[j].A /= accepted[i].B

\* the anchor the outer loop is about to take
AtAnchor == pc = "outer" /\ number_A <= N

\* the outer loop passes over its anchor without a comparison
PassedOver ==
    /\ number_A' = number_A + 1 /\ pc' = "outer"
    /\ result' = result /\ accepted' = accepted
    /\ exclude_from_search' = exclude_from_search

\* the outer loop starts comparing its anchor with the image after it
Compared == pc' = "rot" /\ number_A' = number_A /\ number_B' = number_A + 1

AnchorStep ==
    AtAnchor =>
        IF fast_search /\ id_A \in AcceptedAsB
        THEN PassedOver
        ELSE number_A < N => Compared

\* C11: with fast_search enabled an id accepted as B is never an anchor
\* afterwards: its turn in the outer loop is passed over, no comparison is
\* made with it as A and no group is keyed by it; with fast_search disabled
\* nothing is excluded and every anchor that has a later image is compared.
C11_MatchedNeverAnchors ==
    /\ [](fast_search => NeverAnAnchor)
    /\ [](~fast_search => exclude_from_search = <<>>)
    /\ [][AnchorStep]_vars

\* a finished fast search in which an image was accepted as B by two
\* different anchors and then passed over although an image came after it
C11_Witness ==
    /\ pc = "searched" /\ fast_search
    /\ \E i, j \in DOMAIN accepted :
          /\ i < j
          /\ accepted[i].B = accepted[j].B
          /\ accepted[i].A /= accepted[j].A
          /\ Lookup(imgs_matrices, accepted[i].B) < N

(***************************************************************************)
(* Properties of the groups of one search (Spec).                          *)
(***************************************************************************)
AllMembers == UNION {Members(result, key) : key \in DOMAIN result}

\* C12: no id is both a key of result and a member of a group, no key is a
\* member of its own group, and every member of a group comes later in
\* imgs_matrices than the key of the group.
C12_KeysAndMembersApart ==
    /\ DOMAIN result \cap AllMembers = {}
    /\ \A key \in DOMAIN result :
          /\ key \notin Members(result, key)
          /\ \A b \in Members(result, key) :
                Lookup(imgs_matrices, key) < Lookup(imgs_matrices, b)

\* a search without fast_search in which the anchor of an accepted match was
\* a member of a group, so that its B joined that group and the anchor keys
\* none
C12_Witness ==
    /\ ~fast_search
    /\ \E e \in Range(accepted) :
          /\ e.A \notin DOMAIN result
          /\ \E key \in GroupsOf(result, e.A) : e.B \in Members(result, key)

====
